---------------------------- MODULE Spec2Model ----------------------------
(***************************************************************************)
(* A model of the action views of the H.F-Capital CRM:                     *)
(*   src/companies/views.py  company_enrich, company_list (pagination)     *)
(*   src/leads/views.py      lead_enrich, send_to_mailchimp,               *)
(*                           bulk_apply_tag, send_tag_to_mailchimp,        *)
(*                           lead_list (pagination)                        *)
(* Each request is handled start to finish before the next one begins      *)
(* (one worker, synchronous); a handler that loops over records is cut     *)
(* into one step per record, so that the collaborator's answer for each    *)
(* record is an input of that step.                                        *)
(***************************************************************************)
EXTENDS Integers, Sequences, FiniteSets, TLC

(***************************************************************************)
(* Bounds of the model.                                                    *)
(***************************************************************************)
NumCompanies == 2
NumLeads == 2
MaxSelected == 2      \* the longest selected_leads list a request carries
MaxItems == 25        \* the most rows a list view's queryset holds
MaxPageLen == 2       \* the longest `page` parameter a request carries
NumRows == 2          \* the most rows of a list whose order is observed

Domains == 1..NumCompanies      \* Company primary keys (the domain column)
LeadIds == 1..NumLeads          \* Lead primary keys

(***************************************************************************)
(* Python values a model field or a collaborator's mapping can hold.  A    *)
(* value is tagged with its type, so that None, '' and 0 stay distinct.    *)
(***************************************************************************)
None == <<"none">>
StrV(s) == <<"str", s>>
IntV(n) == <<"int", n>>

\* Python truthiness of a field value: `not current` (companies/views.py:293)
Falsy(v) == v = None \/ v = StrV("") \/ v = IntV(0)

\* `value is None or value == ''` (companies/views.py:290)
IsNoneOrEmptyString(v) == v = None \/ v = StrV("")

(***************************************************************************)
(* The Company table.  company_enrich treats the fourteen text columns of  *)
(* its field list alike and company_size as the one integer column (its    *)
(* candidate filter tests company_size for NULL only); the model keeps one *)
(* text column and the integer column.                                     *)
(***************************************************************************)
fields == <<"linkedin", "company_size">>
FieldNames == {fields[i] : i \in 1..Len(fields)}
TextFields == {"linkedin"}

TextValues == {None, StrV(""), StrV("a"), StrV("b")}
SizeValues == {None, IntV(0), IntV(7)}
ColumnValues(f) == IF f \in TextFields THEN TextValues ELSE SizeValues

CompanyRecords == {r \in [FieldNames -> TextValues \cup SizeValues] :
                      \A f \in FieldNames : r[f] \in ColumnValues(f)}
CompanyTables == UNION {[S -> CompanyRecords] : S \in SUBSET Domains}

(***************************************************************************)
(* The Lead table: the columns lead_enrich's candidate filter reads.  The  *)
(* model keeps two of the four text columns.                               *)
(***************************************************************************)
LeadFieldNames == {"pdl_first_name", "pdl_linkedin_url"}
LeadValues == {None, StrV(""), StrV("a")}
LeadRecords == [LeadFieldNames -> LeadValues]
LeadTables == UNION {[S -> LeadRecords] : S \in SUBSET LeadIds}

(***************************************************************************)
(* The process environment: os.getenv returns None for an unset variable.  *)
(***************************************************************************)
EnvValues == {None, StrV(""), StrV("key")}
Environments == [{"GENAI_API_KEY", "OPENAI_API_KEY"} -> EnvValues]

\* A plausible slip: the gate tests one credential only.
enable_enrichment_one_key(e) == ~Falsy(e["GENAI_API_KEY"])

\* os.getenv("GENAI_API_KEY") and os.getenv("OPENAI_API_KEY"), as a truth value
enable_enrichment(e) == ~Falsy(e["GENAI_API_KEY"]) /\ ~Falsy(e["OPENAI_API_KEY"])

Methods == {"GET", "POST"}
\* The `mode` query parameter as the request carries it
Modes == {"absent", "empty", "all"}

\* mode = request.GET.get('mode', 'empty')
ModeOf(m) == IF m = "absent" THEN "empty" ELSE m

\* overwrite = mode == 'all'
OverwriteOf(m) == m = "all"

VARIABLES
  companies,    \* the Company table: domain -> record
  leads,        \* the Lead table: pk -> record
  environ,      \* the process environment
  view,         \* the handler in progress, or "idle"
  pc,           \* its place: "gated", "empty", "iterating", "done"
  method,       \* the request's method
  mode,         \* the run's mode
  overwrite,    \* the run's overwrite flag
  queue,        \* the records still to visit, in the queryset's order
  total,        \* the queryset's count()
  enriched, skipped, errors,   \* the run's tallies
  visited,      \* the records passed to the collaborator, in order
  returned,     \* what the collaborator answered, per record
  outcome,      \* how each record was tallied
  before,       \* the two tables as the request found them
  saves,        \* record writes of this run
  queried,      \* whether the run has queried a table
  messages,     \* the flash messages of the response, in order
  tags,         \* the LeadTag table: pk -> name
  lead_tags,    \* the Lead.tags through table: <<lead pk, tag pk>> -> rows
  selected_ids, \* request.POST.getlist('selected_leads')
  tag_name,     \* request.POST.get('tag_name')
  tag_id,       \* request.POST.get('tag_id')
  tag,          \* the pk of the tag the handler holds, 0 for none
  success, failed,   \* the sync run's tallies
  updated_count,  \* bulk_apply_tag's `updated`
  sent,         \* the arguments of each collaborator call, per lead
  object_count, \* the rows of the list view's filtered queryset
  page_param,   \* request.GET.get('page')
  page_obj,     \* the page the list view renders
  company_rows, \* the rows company_list orders, in primary-key order
  lead_rows,    \* the rows lead_list orders, in primary-key order
  nulls_first,  \* whether the database puts NULL before values, ascending
  sort_param,   \* request.GET.get('sort')
  dir_param,    \* request.GET.get('dir')
  sort_key,     \* the sort key the view reports back
  sort_dir,     \* the direction the view reports back
  order_by,     \* the terms of the queryset's order_by
  object_list   \* the rows in the order the database returns them

enrichVars == <<companies, leads, environ, view, pc, method, mode, overwrite,
                queue, total, enriched, skipped, errors, visited, returned,
                outcome, before, saves, queried, messages>>

tagVars == <<tags, lead_tags, selected_ids, tag_name, tag_id, tag, success,
             failed, updated_count, sent>>

pageVars == <<object_count, page_param, page_obj, company_rows, lead_rows,
              nulls_first, sort_param, dir_param, sort_key, sort_dir,
              order_by, object_list>>

\* The persisted tables
Tables == <<companies, leads, tags, lead_tags>>

(***************************************************************************)
(* Querysets.                                                              *)
(***************************************************************************)
\* The rows S as a queryset without order_by yields them: the loops treat
\* each row on its own, and the model takes them in primary-key order.
RECURSIVE InKeyOrder(_)
InKeyOrder(S) ==
  IF S = {} THEN <<>>
  ELSE LET least == CHOOSE x \in S : \A y \in S : x <= y
       IN  <<least>> \o InKeyOrder(S \ {least})

\* companies.filter(Q(work_website__isnull=True) | Q(work_website='') | ...
\*                  | Q(company_size__isnull=True) | ...)
CompanyMissesField(r) ==
  \/ \E f \in TextFields : r[f] = None \/ r[f] = StrV("")
  \/ r["company_size"] = None

\* A plausible slip: the fill-mode filter is left out.
CompanyCandidatesUnfiltered(table, ow) == DOMAIN table

CompanyCandidates(table, ow) ==
  IF ow THEN DOMAIN table
        ELSE {d \in DOMAIN table : CompanyMissesField(table[d])}

\* leads.filter(Q(pdl_first_name__isnull=True) | Q(pdl_first_name='') | ...)
LeadMissesField(r) == \E f \in LeadFieldNames : r[f] = None \/ r[f] = StrV("")

LeadCandidates(table, ow) ==
  IF ow THEN DOMAIN table
        ELSE {l \in DOMAIN table : LeadMissesField(table[l])}

(***************************************************************************)
(* The enrichment collaborators' answers.                                  *)
(*   enrich_company(domain): raises, returns a falsy value (None, {}), or  *)
(*   returns a mapping; a key the mapping lacks reads as None with .get.   *)
(*   enrich_lead(lead, overwrite): raises, returns a falsy value, or a     *)
(*   mapping whose 'skipped' entry is truthy or not; it saves the lead     *)
(*   itself.                                                               *)
(***************************************************************************)
ReturnedText == {StrV(""), StrV("b")}
ReturnedSize == {None, IntV(7)}
ReturnedValues(f) == IF f \in TextFields THEN ReturnedText ELSE ReturnedSize
Mappings == {m \in [FieldNames -> ReturnedText \cup ReturnedSize] :
                \A f \in FieldNames : m[f] \in ReturnedValues(f)}
NoMapping == [f \in FieldNames |-> None]
NotCalled == [kind |-> "not_called", data |-> NoMapping]
CompanyAnswers == {[kind |-> "raise", data |-> NoMapping],
                   [kind |-> "falsy", data |-> NoMapping]}
                  \cup {[kind |-> "mapping", data |-> m] : m \in Mappings}
LeadAnswers == {[kind |-> k, data |-> NoMapping] :
                   k \in {"raise", "falsy", "skipped", "enriched"}}

(***************************************************************************)
(* company_enrich's merge of one answer into one record.                   *)
(***************************************************************************)
\* A plausible slip: the current value is not consulted.
ShouldWriteAlways(value, current, ow) == ~IsNoneOrEmptyString(value)

\* if value is None or value == '': continue
\* if overwrite or not current: setattr(...)
ShouldWrite(value, current, ow) ==
  ~IsNoneOrEmptyString(value) /\ (ow \/ Falsy(current))

\* for field in fields: ... ; the record after the loop and the `updated` flag
RECURSIVE MergeFrom(_, _, _, _)
MergeFrom(i, acc, data, ow) ==
  IF i > Len(fields) THEN acc
  ELSE LET field == fields[i]
           value == data[field]
           current == acc.company[field]
       IN  IF ShouldWrite(value, current, ow)
           THEN MergeFrom(i + 1,
                          [company |-> [acc.company EXCEPT ![field] = value],
                           updated |-> TRUE], data, ow)
           ELSE MergeFrom(i + 1, acc, data, ow)

Merge(company, data, ow) ==
  MergeFrom(1, [company |-> company, updated |-> FALSE], data, ow)

(***************************************************************************)
(* enrich_lead's write to the lead it is given, when it reports neither a  *)
(* skip nor a failure: the enrichable columns are filled under the same    *)
(* overwrite policy.                                                       *)
(***************************************************************************)
EnrichLeadWrite(lead, ow) ==
  [f \in LeadFieldNames |->
      IF ow \/ Falsy(lead[f]) THEN StrV("a") ELSE lead[f]]

(***************************************************************************)
(* The state between two requests.                                         *)
(***************************************************************************)
\* The specifications that observe no order keep no rows of the lists
NoListRows == company_rows = <<>> /\ lead_rows = <<>> /\ nulls_first = FALSE

Idle ==
  /\ view = "idle" /\ pc = "idle" /\ method = "" /\ mode = ""
  /\ overwrite = FALSE
  /\ queue = <<>> /\ total = 0
  /\ enriched = 0 /\ skipped = 0 /\ errors = 0
  /\ visited = <<>> /\ returned = <<>> /\ outcome = <<>>
  /\ before = <<>> /\ saves = 0 /\ queried = FALSE /\ messages = <<>>
  /\ selected_ids = <<>> /\ tag_name = None /\ tag_id = None /\ tag = 0
  /\ success = 0 /\ failed = 0 /\ updated_count = 0 /\ sent = <<>>
  /\ page_param = None /\ page_obj = None
  /\ sort_param = None /\ dir_param = None
  /\ sort_key = <<>> /\ sort_dir = <<>>
  /\ order_by = <<>> /\ object_list = <<>>

\* The response has been sent: the next request finds the tables as they are.
Respond ==
  /\ pc \in {"gated", "empty", "done", "not_post", "invalid", "not_found"}
  /\ view' = "idle" /\ pc' = "idle" /\ method' = "" /\ mode' = ""
  /\ overwrite' = FALSE
  /\ queue' = <<>> /\ total' = 0
  /\ enriched' = 0 /\ skipped' = 0 /\ errors' = 0
  /\ visited' = <<>> /\ returned' = <<>> /\ outcome' = <<>>
  /\ before' = <<>> /\ saves' = 0 /\ queried' = FALSE /\ messages' = <<>>
  /\ selected_ids' = <<>> /\ tag_name' = None /\ tag_id' = None /\ tag' = 0
  /\ success' = 0 /\ failed' = 0 /\ updated_count' = 0 /\ sent' = <<>>
  /\ page_param' = None /\ page_obj' = None
  /\ sort_param' = None /\ dir_param' = None
  /\ sort_key' = <<>> /\ sort_dir' = <<>>
  /\ order_by' = <<>> /\ object_list' = <<>>
  /\ UNCHANGED <<companies, leads, environ, tags, lead_tags, object_count,
                 company_rows, lead_rows, nulls_first>>

(***************************************************************************)
(* company_enrich: the request up to the loop.                             *)
(***************************************************************************)
company_enrich ==
  /\ UNCHANGED <<tagVars, pageVars>>
  /\ view = "idle"
  /\ \E m \in Methods, md \in Modes :
       /\ view' = "company_enrich"
       /\ method' = m
       /\ mode' = ModeOf(md)
       /\ before' = Tables
       /\ visited' = <<>>
       /\ returned' = [d \in Domains |-> NotCalled]
       /\ outcome' = [d \in Domains |-> "none"]
       /\ IF ~enable_enrichment(environ)
          THEN /\ pc' = "gated"
               /\ messages' = <<"disabled">>
               /\ UNCHANGED <<overwrite, queue, total, queried>>
          ELSE LET ow == OverwriteOf(ModeOf(md))
                   cands == CompanyCandidates(companies, ow)
               IN  /\ overwrite' = ow
                   /\ queried' = TRUE
                   /\ total' = Cardinality(cands)
                   /\ IF Cardinality(cands) = 0
                      THEN /\ pc' = "empty"
                           /\ messages' = <<"none_need">>
                           /\ queue' = <<>>
                      ELSE /\ pc' = "iterating"
                           /\ messages' = <<>>
                           /\ queue' = InKeyOrder(cands)
  /\ UNCHANGED <<companies, leads, environ, enriched, skipped, errors, saves>>

(***************************************************************************)
(* company_enrich: one pass of `for company in companies`; the last pass    *)
(* runs on into the summary message.                                       *)
(***************************************************************************)
\* A plausible slip: the loop ends at the first exception.
CompanyRestAfterRaiseStops(q) == <<>>

\* except Exception: errors += 1; continue
CompanyRestAfterRaise(q) == Tail(q)

\* A plausible slip: a falsy answer is tallied as a skip.
TallyFalsyAsSkip(kind, updated) ==
  IF kind = "mapping" /\ updated THEN "enriched" ELSE
  IF kind \in {"mapping", "falsy"} THEN "skipped" ELSE "error"

\* errors += 1 (raise, falsy answer) ; enriched += 1 ; skipped += 1
CompanyTally(kind, updated) ==
  IF kind \in {"raise", "falsy"} THEN "error"
  ELSE IF updated THEN "enriched" ELSE "skipped"

company_enrich_loop ==
  /\ UNCHANGED <<tagVars, pageVars>>
  /\ view = "company_enrich" /\ pc = "iterating" /\ queue # <<>>
  /\ LET d == Head(queue) IN
     \E answer \in CompanyAnswers :
       LET merged == Merge(companies[d], answer.data, overwrite)
           updated == answer.kind = "mapping" /\ merged.updated
           tally == CompanyTally(answer.kind, updated)
       IN  /\ visited' = Append(visited, d)
           /\ returned' = [returned EXCEPT ![d] = answer]
           /\ outcome' = [outcome EXCEPT ![d] = tally]
           /\ enriched' = enriched + (IF tally = "enriched" THEN 1 ELSE 0)
           /\ skipped' = skipped + (IF tally = "skipped" THEN 1 ELSE 0)
           /\ errors' = errors + (IF tally = "error" THEN 1 ELSE 0)
           /\ IF updated
              THEN /\ companies' = [companies EXCEPT ![d] = merged.company]
                   /\ saves' = saves + 1
              ELSE UNCHANGED <<companies, saves>>
           /\ LET rest == IF answer.kind = "raise"
                           THEN CompanyRestAfterRaise(queue) ELSE Tail(queue)
              IN  /\ queue' = rest
                  \* after the last pass: the summary message and the redirect
                  /\ pc' = IF rest = <<>> THEN "done" ELSE "iterating"
                  /\ messages' = IF rest = <<>> THEN <<"completed">> ELSE messages
  /\ UNCHANGED <<leads, environ, view, method, mode, overwrite, total,
                 before, queried>>

(***************************************************************************)
(* lead_enrich.                                                            *)
(***************************************************************************)
lead_enrich ==
  /\ UNCHANGED <<tagVars, pageVars>>
  /\ view = "idle"
  /\ \E m \in Methods, md \in Modes :
       /\ view' = "lead_enrich"
       /\ method' = m
       /\ mode' = ModeOf(md)
       /\ before' = Tables
       /\ visited' = <<>>
       /\ returned' = [l \in LeadIds |-> NotCalled]
       /\ outcome' = [l \in LeadIds |-> "none"]
       /\ IF ~enable_enrichment(environ)
          THEN /\ pc' = "gated"
               /\ messages' = <<"disabled">>
               /\ UNCHANGED <<overwrite, queue, total, queried>>
          ELSE LET ow == OverwriteOf(ModeOf(md))
                   cands == LeadCandidates(leads, ow)
               IN  /\ overwrite' = ow
                   /\ queried' = TRUE
                   /\ total' = Cardinality(cands)
                   /\ IF Cardinality(cands) = 0
                      THEN /\ pc' = "empty"
                           /\ messages' = <<"none_need">>
                           /\ queue' = <<>>
                      ELSE /\ pc' = "iterating"
                           /\ messages' = <<>>
                           /\ queue' = InKeyOrder(cands)
  /\ UNCHANGED <<companies, leads, environ, enriched, skipped, errors, saves>>

\* if result and result.get('skipped') ... elif result ... else ... except
LeadTally(kind) ==
  IF kind = "skipped" THEN "skipped"
  ELSE IF kind = "enriched" THEN "enriched" ELSE "error"

lead_enrich_loop ==
  /\ UNCHANGED <<tagVars, pageVars>>
  /\ view = "lead_enrich" /\ pc = "iterating" /\ queue # <<>>
  /\ LET l == Head(queue) IN
     \E answer \in LeadAnswers :
       LET tally == LeadTally(answer.kind) IN
           /\ visited' = Append(visited, l)
           /\ returned' = [returned EXCEPT ![l] = answer]
           /\ outcome' = [outcome EXCEPT ![l] = tally]
           /\ enriched' = enriched + (IF tally = "enriched" THEN 1 ELSE 0)
           /\ skipped' = skipped + (IF tally = "skipped" THEN 1 ELSE 0)
           /\ errors' = errors + (IF tally = "error" THEN 1 ELSE 0)
           /\ IF answer.kind = "enriched"
              THEN /\ leads' = [leads EXCEPT ![l] = EnrichLeadWrite(@, overwrite)]
                   /\ saves' = saves + 1
              ELSE UNCHANGED <<leads, saves>>
           /\ queue' = Tail(queue)
           \* after the last pass: the summary message and the redirect
           /\ pc' = IF Tail(queue) = <<>> THEN "done" ELSE "iterating"
           /\ messages' = IF Tail(queue) = <<>> THEN <<"completed">> ELSE messages
  /\ UNCHANGED <<companies, environ, view, method, mode, overwrite, total,
                 before, queried>>

(***************************************************************************)
(* The enrichment views over every table and environment.  company_enrich  *)
(* touches Company rows only and lead_enrich Lead rows only, so one of the *)
(* two tables starts empty.                                                *)
(***************************************************************************)
InitEnrich ==
  /\ environ \in Environments
  /\ \/ companies \in CompanyTables /\ leads = <<>>
     \/ companies = <<>> /\ leads \in LeadTables
  /\ tags = <<>> /\ lead_tags = <<>> /\ object_count = 0
  /\ NoListRows
  /\ Idle

NextEnrich ==
  \/ company_enrich
  \/ company_enrich_loop
  \/ lead_enrich
  \/ lead_enrich_loop
  \/ Respond

vars == <<enrichVars, tagVars, pageVars>>

SpecEnrich == InitEnrich /\ [][NextEnrich]_vars

(***************************************************************************)
(* Strings of the tag form, as sequences of characters.                    *)
(***************************************************************************)
IsSpace(c) == c = " "

RECURSIVE lstrip(_)
lstrip(str) ==
  IF str = <<>> THEN <<>>
  ELSE IF IsSpace(Head(str)) THEN lstrip(Tail(str)) ELSE str

RECURSIVE rstrip(_)
rstrip(str) ==
  IF str = <<>> THEN <<>>
  ELSE IF IsSpace(str[Len(str)]) THEN rstrip(SubSeq(str, 1, Len(str) - 1))
       ELSE str

\* str.strip()
strip(str) == rstrip(lstrip(str))

LowerChar(c) ==
  CASE c = "V" -> "v" [] c = "I" -> "i" [] c = "P" -> "p"
    [] c = "N" -> "n" [] c = "S" -> "s" [] OTHER -> c

\* str.lower()
lower(str) == [i \in 1..Len(str) |-> LowerChar(str[i])]

\* x or ''
OrEmpty(x) == IF x = None THEN <<>> ELSE x

\* The tag_name values a request carries: none, '', blanks, and names that
\* differ in case and padding only, and another name
TagNameInputs ==
  {None, <<>>, <<" ", " ">>,
   <<"v", "i", "p">>, <<"V", "I", "P">>, <<"V", "i", "p", " ">>,
   <<" ", " ", "V", "I", "P", " ", " ">>,
   <<"v", " ", "c">>}

\* The selected_leads lists a request carries: pks in any order, repeated
\* or not, of leads that exist or not
SelectionLists == UNION {[1..n -> LeadIds] : n \in 0..MaxSelected}

Elements(list) == {list[i] : i \in 1..Len(list)}

(***************************************************************************)
(* The LeadTag table and the Lead.tags relation.                           *)
(***************************************************************************)
TagIds == 1..Len(tags)

\* The rows of the through table for lead l and tag t
Rows(relation, l, t) ==
  IF <<l, t>> \in DOMAIN relation THEN relation[<<l, t>>] ELSE 0

\* A plausible slip: a new row is created whatever the table holds.
get_or_create_always(table, name) ==
  [table |-> Append(table, name), pk |-> Len(table) + 1]

\* LeadTag.objects.get_or_create(name=...): the row of that name, made if
\* there is none
get_or_create(table, name) ==
  IF \E i \in 1..Len(table) : table[i] = name
  THEN [table |-> table,
        pk |-> CHOOSE i \in 1..Len(table) : table[i] = name]
  ELSE [table |-> Append(table, name), pk |-> Len(table) + 1]

\* for lead in leads: lead.tags.add(tag) -- a row is added where none is
AddTag(relation, ids, t) ==
  [p \in DOMAIN relation \cup {<<l, t>> : l \in ids} |->
      IF p[2] = t /\ p[1] \in ids
      THEN (IF Rows(relation, p[1], t) = 0 THEN 1 ELSE relation[p])
      ELSE relation[p]]

\* Lead.objects.filter(pk__in=selected_ids)
LeadsIn(table, ids) == {l \in DOMAIN table : l \in Elements(ids)}

\* Lead.objects.filter(tags=tag)
LeadsTagged(table, relation, t) ==
  {l \in DOMAIN table : Rows(relation, l, t) > 0}

\* list(lead.tags.values_list('name', flat=True)): one name per row
RECURSIVE TagNamesFrom(_, _, _, _)
TagNamesFrom(i, table, relation, l) ==
  IF i > Len(table) THEN <<>>
  ELSE [k \in 1..Rows(relation, l, i) |-> table[i]]
         \o TagNamesFrom(i + 1, table, relation, l)

TagNamesOf(table, relation, l) == TagNamesFrom(1, table, relation, l)

(***************************************************************************)
(* bulk_apply_tag.                                                         *)
(***************************************************************************)
\* A plausible slip: the name is tested before it is trimmed.
TagNameUntrimmed(raw) == OrEmpty(raw)

\* tag_name = (request.POST.get('tag_name') or '').strip()
TagNameOf(raw) == strip(OrEmpty(raw))

\* A plausible slip: the name is stored as typed.
StoredNameAsTyped(name) == name

\* name=tag_name.strip().lower()
StoredName(name) == lower(strip(name))

bulk_apply_tag ==
  /\ UNCHANGED pageVars
  /\ view = "idle"
  /\ \E m \in Methods, ids \in SelectionLists, raw \in TagNameInputs :
       /\ view' = "bulk_apply_tag"
       /\ method' = m
       /\ before' = Tables
       /\ IF m # "POST"
          THEN /\ pc' = "not_post"
               /\ messages' = <<>>
               /\ UNCHANGED <<tags, lead_tags, selected_ids, tag_name, tag,
                              updated_count>>
          ELSE /\ selected_ids' = ids
               /\ tag_name' = raw
               /\ IF ids = <<>>
                  THEN /\ pc' = "invalid"
                       /\ messages' = <<"no_leads_selected">>
                       /\ UNCHANGED <<tags, lead_tags, tag, updated_count>>
                  ELSE IF TagNameOf(raw) = <<>>
                  THEN /\ pc' = "invalid"
                       /\ messages' = <<"tag_name_required">>
                       /\ UNCHANGED <<tags, lead_tags, tag, updated_count>>
                  ELSE LET got == get_or_create(tags, StoredName(TagNameOf(raw)))
                           found == LeadsIn(leads, ids)
                       IN  /\ tags' = got.table
                           /\ tag' = got.pk
                           /\ lead_tags' = AddTag(lead_tags, found, got.pk)
                           /\ updated_count' = Cardinality(found)
                           /\ pc' = "done"
                           /\ messages' = <<"applied">>
  /\ UNCHANGED <<companies, leads, environ, mode, overwrite, queue, total,
                 enriched, skipped, errors, visited, returned, outcome, saves,
                 queried, tag_id, success, failed, sent>>

(***************************************************************************)
(* The mailing-list sync collaborator, add_lead_to_mailchimp(email,        *)
(* first_name, last_name, tag_names): its result holds an "error" key on   *)
(* failure.                                                                *)
(***************************************************************************)
SyncAnswers == {[kind |-> "ok", data |-> NoMapping],
                [kind |-> "error", data |-> NoMapping]}

\* A plausible slip: the test is inverted.
HasNoErrorKey(result) == result.kind # "error"

\* 'error' in result
HasErrorKey(result) == result.kind = "error"

\* A plausible slip: the loop ends at the first failure.
RestAfterFailureStops(q, result) ==
  IF result.kind = "error" THEN <<>> ELSE Tail(q)

\* The loop goes on to the next lead whatever the result holds.
RestAfter(q, result) == Tail(q)

\* The summary messages after the loop
SyncMessages(s, f) ==
  (IF s > 0 THEN <<"sent">> ELSE <<>>) \o (IF f > 0 THEN <<"failed">> ELSE <<>>)

(***************************************************************************)
(* send_to_mailchimp: the request up to the loop, one pass of the loop     *)
(* (the last pass runs on into the summary).                               *)
(***************************************************************************)
send_to_mailchimp ==
  /\ UNCHANGED pageVars
  /\ view = "idle"
  /\ \E m \in Methods, ids \in SelectionLists :
       /\ view' = "send_to_mailchimp"
       /\ method' = m
       /\ before' = Tables
       /\ visited' = <<>>
       /\ returned' = [l \in LeadIds |-> NotCalled]
       /\ sent' = [l \in LeadIds |-> None]
       /\ IF m # "POST"
          THEN /\ pc' = "not_post"
               /\ messages' = <<>>
               /\ UNCHANGED <<selected_ids, queue>>
          ELSE /\ selected_ids' = ids
               /\ IF ids = <<>>
                  THEN /\ pc' = "invalid"
                       /\ messages' = <<"no_leads_selected">>
                       /\ queue' = <<>>
                  ELSE LET found == LeadsIn(leads, ids) IN
                       /\ queue' = InKeyOrder(found)
                       /\ pc' = IF found = {} THEN "done" ELSE "iterating"
                       /\ messages' = <<>>
  /\ UNCHANGED <<companies, leads, environ, mode, overwrite, total, enriched,
                 skipped, errors, outcome, saves, queried, tags, lead_tags,
                 tag_name, tag_id, tag, success, failed, updated_count>>

send_to_mailchimp_loop ==
  /\ UNCHANGED pageVars
  /\ view = "send_to_mailchimp" /\ pc = "iterating" /\ queue # <<>>
  /\ LET lead == Head(queue) IN
     \E result \in SyncAnswers :
       LET tag_names == TagNamesOf(tags, lead_tags, lead)
           f == failed + (IF HasErrorKey(result) THEN 1 ELSE 0)
           s == success + (IF HasErrorKey(result) THEN 0 ELSE 1)
           rest == RestAfter(queue, result)
       IN  /\ visited' = Append(visited, lead)
           /\ returned' = [returned EXCEPT ![lead] = result]
           /\ sent' = [sent EXCEPT ![lead] =
                         [email |-> lead,
                          first_name |-> leads[lead]["pdl_first_name"],
                          tag_names |-> tag_names]]
           /\ failed' = f
           /\ success' = s
           /\ queue' = rest
           /\ pc' = IF rest = <<>> THEN "done" ELSE "iterating"
           /\ messages' = IF rest = <<>> THEN SyncMessages(s, f) ELSE messages
  /\ UNCHANGED <<companies, leads, environ, view, method, mode, overwrite,
                 total, enriched, skipped, errors, outcome, before, saves,
                 queried, tags, lead_tags, selected_ids, tag_name, tag_id, tag,
                 updated_count>>

(***************************************************************************)
(* send_tag_to_mailchimp.                                                  *)
(***************************************************************************)
\* The tag_id values a request carries: none, '', or a pk
TagIdInputs == {None, <<>>} \cup {IntV(i) : i \in 1..(Len(tags) + 1)}

send_tag_to_mailchimp ==
  /\ UNCHANGED pageVars
  /\ view = "idle"
  /\ \E m \in Methods, id \in TagIdInputs :
       /\ view' = "send_tag_to_mailchimp"
       /\ method' = m
       /\ before' = Tables
       /\ visited' = <<>>
       /\ returned' = [l \in LeadIds |-> NotCalled]
       /\ sent' = [l \in LeadIds |-> None]
       /\ IF m # "POST"
          THEN /\ pc' = "not_post"
               /\ messages' = <<>>
               /\ UNCHANGED <<tag_id, tag, queue>>
          ELSE /\ tag_id' = id
               /\ IF id = None \/ id = <<>>
                  THEN /\ pc' = "invalid"
                       /\ messages' = <<"choose_a_tag">>
                       /\ UNCHANGED <<tag, queue>>
                  ELSE IF id[2] \notin TagIds
                  THEN /\ pc' = "not_found"
                       /\ messages' = <<>>
                       /\ UNCHANGED <<tag, queue>>
                  ELSE LET found == LeadsTagged(leads, lead_tags, id[2]) IN
                       /\ tag' = id[2]
                       /\ queue' = InKeyOrder(found)
                       /\ IF found = {}
                          THEN /\ pc' = "empty"
                               /\ messages' = <<"no_leads_with_tag">>
                          ELSE /\ pc' = "iterating"
                               /\ messages' = <<>>
  /\ UNCHANGED <<companies, leads, environ, mode, overwrite, total, enriched,
                 skipped, errors, outcome, saves, queried, tags, lead_tags,
                 selected_ids, tag_name, success, failed, updated_count>>

send_tag_to_mailchimp_loop ==
  /\ UNCHANGED pageVars
  /\ view = "send_tag_to_mailchimp" /\ pc = "iterating" /\ queue # <<>>
  /\ LET lead == Head(queue) IN
     \E result \in SyncAnswers :
       LET f == failed + (IF HasErrorKey(result) THEN 1 ELSE 0)
           s == success + (IF HasErrorKey(result) THEN 0 ELSE 1)
           rest == RestAfter(queue, result)
       IN  /\ visited' = Append(visited, lead)
           /\ returned' = [returned EXCEPT ![lead] = result]
           /\ sent' = [sent EXCEPT ![lead] =
                         [email |-> lead,
                          first_name |-> leads[lead]["pdl_first_name"],
                          tag_names |-> <<tags[tag]>>]]
           /\ failed' = f
           /\ success' = s
           /\ queue' = rest
           /\ pc' = IF rest = <<>> THEN "done" ELSE "iterating"
           /\ messages' = IF rest = <<>> THEN SyncMessages(s, f) ELSE messages
  /\ UNCHANGED <<companies, leads, environ, view, method, mode, overwrite,
                 total, enriched, skipped, errors, outcome, before, saves,
                 queried, tags, lead_tags, selected_ids, tag_name, tag_id, tag,
                 updated_count>>

(***************************************************************************)
(* The bulk actions of the lead list, over every set of leads.  No tag     *)
(* exists at first: bulk_apply_tag is what creates them.                   *)
(***************************************************************************)
SomeLead == [f \in LeadFieldNames |-> StrV("a")]

InitLeads ==
  /\ environ = [k \in {"GENAI_API_KEY", "OPENAI_API_KEY"} |-> None]
  /\ companies = <<>>
  /\ \E S \in SUBSET LeadIds : leads = [l \in S |-> SomeLead]
  /\ tags = <<>> /\ lead_tags = <<>> /\ object_count = 0
  /\ NoListRows
  /\ Idle

NextLeads ==
  \/ bulk_apply_tag
  \/ send_to_mailchimp
  \/ send_to_mailchimp_loop
  \/ send_tag_to_mailchimp
  \/ send_tag_to_mailchimp_loop
  \/ Respond

SpecLeads == InitLeads /\ [][NextLeads]_vars

(***************************************************************************)
(* The list views' pagination: django.core.paginator.Paginator(rows, 10)   *)
(* and its get_page, which never raises: a number that is no integer       *)
(* gives page 1, an integer outside 1..num_pages gives the last page.      *)
(***************************************************************************)
per_page == 10

PageChars == {"0", "1", "2", "-", "x", " "}
PageInputs == {None} \cup UNION {[1..n -> PageChars] : n \in 0..MaxPageLen}

IsDigit(c) == c \in {"0", "1", "2"}
DigitValue(c) == CASE c = "0" -> 0 [] c = "1" -> 1 [] c = "2" -> 2

RECURSIVE NaturalOf(_)
NaturalOf(str) ==
  IF str = <<>> THEN 0
  ELSE 10 * NaturalOf(SubSeq(str, 1, Len(str) - 1)) + DigitValue(str[Len(str)])

\* The digits of a numeral, its sign taken off
Unsigned(str) == IF str # <<>> /\ Head(str) = "-" THEN Tail(str) ELSE str

\* Whether int(str) succeeds: an optional sign and one digit at least,
\* blanks allowed around them
IsInteger(str) ==
  LET digits == Unsigned(strip(str))
  IN  digits # <<>> /\ \A i \in 1..Len(digits) : IsDigit(digits[i])

\* int(str)
IntegerOf(str) ==
  LET body == strip(str)
  IN  IF body # <<>> /\ Head(body) = "-" THEN 0 - NaturalOf(Tail(body))
      ELSE NaturalOf(body)

\* Paginator.num_pages: ceil(max(1, count) / per_page)
num_pages(count) ==
  ((IF count = 0 THEN 1 ELSE count) + per_page - 1) \div per_page

\* Paginator.get_page(number): validate_number raises PageNotAnInteger for
\* a number int() refuses and EmptyPage for one below 1 or above num_pages;
\* get_page answers the first with page 1 and the second with the last page
get_page(count, number) ==
  IF ~IsInteger(number) THEN 1
  ELSE IF IntegerOf(number) < 1 \/ IntegerOf(number) > num_pages(count)
       THEN num_pages(count)
       ELSE IntegerOf(number)

\* Paginator.page(n): the page's number and the rows it shows
Page(count, n) ==
  [number |-> n,
   start_index |-> IF count = 0 THEN 0 ELSE (n - 1) * per_page + 1,
   end_index |-> IF n * per_page < count THEN n * per_page ELSE count]

\* page_number = (request.GET.get('page') or '').strip()
\* paginator.get_page(page_number or 1); the integer 1 is written "1"
PageArgument(raw) ==
  IF strip(OrEmpty(raw)) = <<>> THEN <<"1">> ELSE strip(OrEmpty(raw))

(***************************************************************************)
(* The list views' ordering.  A text column holds None or a string (a      *)
(* sequence of characters), a numeric column None or an integer.  The      *)
(* database returns the rows in any order its ORDER BY terms allow: rows   *)
(* that tie on every term come in an order SQL leaves open.                *)
(***************************************************************************)
\* The strings of the sort and dir parameters
Key_name == <<"n", "a", "m", "e">>
Key_domain == <<"d", "o", "m", "a", "i", "n">>
Key_industry == <<"i", "n", "d", "u", "s", "t", "r", "y">>
Key_size == <<"s", "i", "z", "e">>
Key_leads == <<"l", "e", "a", "d", "s">>
Key_job_title == <<"j", "o", "b", "_", "t", "i", "t", "l", "e">>
Key_email == <<"e", "m", "a", "i", "l">>
Key_company == <<"c", "o", "m", "p", "a", "n", "y">>
Key_score == <<"s", "c", "o", "r", "e">>
Key_stage == <<"s", "t", "a", "g", "e">>
Key_created == <<"c", "r", "e", "a", "t", "e", "d">>
Dir_asc == <<"a", "s", "c">>
Dir_desc == <<"d", "e", "s", "c">>

\* The sort values a request carries: none, '', every key of either list,
\* keys in other case or padded, and a key of neither list
SortInputs ==
  {None, <<>>, Key_name, Key_domain, Key_industry, Key_size, Key_leads,
   Key_job_title, Key_email, Key_company, Key_score, Key_stage, Key_created,
   <<" ", "N", "a", "m", "e">>, <<"S", "c", "o", "r", "e", " ">>}

\* The dir values a request carries
DirInputs == {None, Dir_asc, Dir_desc}

\* Code-point order of the characters the rows' strings are made of
CharRank(c) ==
  CASE c = "I" -> 1 [] c = "V" -> 2 [] c = "i" -> 3 [] c = "v" -> 4

\* a < b for two strings, under a binary collation
RECURSIVE StrLess(_, _)
StrLess(a, b) ==
  IF b = <<>> THEN FALSE
  ELSE IF a = <<>> THEN TRUE
  ELSE IF Head(a) = Head(b) THEN StrLess(Tail(a), Tail(b))
  ELSE CharRank(Head(a)) < CharRank(Head(b))

IsIntV(v) == Len(v) = 2 /\ v[1] = "int"

\* Whether a sorts before b in ascending order: NULL goes to the end the
\* database picks, integers by value, strings by collation
ValueLess(a, b) ==
  IF a = None THEN b # None /\ nulls_first
  ELSE IF b = None THEN ~nulls_first
  ELSE IF IsIntV(a) THEN a[2] < b[2]
  ELSE StrLess(a, b)

\* One ORDER BY term: descending is ascending reversed
TermBefore(a, b, desc) == IF desc THEN ValueLess(b, a) ELSE ValueLess(a, b)

\* ORDER BY t1, t2, ...: the first term on which two rows differ decides
RECURSIVE KeysBefore(_, _, _)
KeysBefore(ka, kb, terms) ==
  IF terms = <<>> THEN FALSE
  ELSE IF Head(ka) = Head(kb) THEN KeysBefore(Tail(ka), Tail(kb), Tail(terms))
  ELSE TermBefore(Head(ka), Head(kb), Head(terms).desc)

\* The orders in which n rows can come
Orderings(n) ==
  {p \in [1..n -> 1..n] : \A i, j \in 1..n : i # j => p[i] # p[j]}

\* The orders the database can return for rows with these term values
Ordered(keys, terms) ==
  {p \in Orderings(Len(keys)) :
     \A j \in 1..Len(keys) : \A i \in 1..(j - 1) :
       ~KeysBefore(keys[p[j]], keys[p[i]], terms)}

\* Coalesce(a, b) and Lower(a) of the database: LOWER(NULL) is NULL
Coalesce(a, b) == IF a # None THEN a ELSE b
Lower(v) == IF v = None THEN None ELSE lower(v)

\* order_by(f'{prefix}column'): prefix = '-' if sort_dir == 'desc' else ''
Prefixed(sd, column) == [column |-> column, desc |-> sd = Dir_desc]
Ascending(column) == [column |-> column, desc |-> FALSE]
Descending(column) == [column |-> column, desc |-> TRUE]

\* The sort value taken as the key whatever the allow-list holds
KeptAsTyped(raw, allowed) == lower(strip(OrEmpty(raw)))

\* sort_key = (request.GET.get('sort') or '').strip().lower(), blanked
\* unless the allow-list holds it
SortKeyOf(raw, allowed) ==
  IF lower(strip(OrEmpty(raw))) \in allowed
  THEN lower(strip(OrEmpty(raw))) ELSE <<>>

\* sort_dir: the key's fixed direction when a key is kept, else the
\* request's own dir, stripped and lowercased
SortDirOf(key, raw, default_dir) ==
  IF key # <<>> THEN default_dir ELSE lower(strip(OrEmpty(raw)))


(***************************************************************************)
(* company_list: the rows, the sort keys and their order_by.               *)
(***************************************************************************)
\* The natural keys and the texts of the rows: two keys differ in case only
RowKeys == {<<"I">>, <<"i">>, <<"v">>}
RowTexts == {None, <<"V">>}

\* A company with nothing filled in, and no lead
BareCompany(d) ==
  [domain |-> d, company_name |-> None, industry |-> None,
   company_size |-> None, leads_count |-> IntV(0)]

\* The company rows by the column that is filled in: each order_by reads
\* one of these columns, and the domain
CompanyListRows ==
  {{[BareCompany(d) EXCEPT !.company_name = v] :
      d \in RowKeys, v \in RowTexts},
   {[BareCompany(d) EXCEPT !.industry = v] :
      d \in RowKeys, v \in RowTexts},
   {[BareCompany(d) EXCEPT !.company_size = v] :
      d \in RowKeys, v \in {None, IntV(0), IntV(7)}},
   {[BareCompany(d) EXCEPT !.leads_count = v] :
      d \in RowKeys, v \in {IntV(0), IntV(1)}}}

\* The tables over some rows, kept in the order of the natural key, which
\* no two rows share
TablesOver(rows, natural_key) ==
  {t \in UNION {[1..n -> rows] : n \in 0..NumRows} :
     \A j \in 1..Len(t) : \A i \in 1..(j - 1) :
       StrLess(t[i][natural_key], t[j][natural_key])}

CompanyListTables == UNION {TablesOver(rows, "domain") : rows \in CompanyListRows}

company_allowed_sort_keys ==
  {Key_name, Key_domain, Key_industry, Key_size, Key_leads}

\* _default_dir_for(key)
company_default_dir_for(key) ==
  IF key \in {Key_size, Key_leads} THEN Dir_desc ELSE Dir_asc

\* The column or annotation an order_by term names
CompanyColumn(row, column) ==
  CASE column = "name_sort" -> Lower(Coalesce(row.company_name, row.domain))
    [] column = "domain_sort" -> Lower(row.domain)
    [] column = "industry_sort" -> Lower(Coalesce(row.industry, <<>>))
    [] column = "size_sort" -> Coalesce(row.company_size, IntV(-1))
    [] column = "leads_count" -> row.leads_count
    [] column = "company_name" -> row.company_name
    [] column = "domain" -> row.domain

\* The order_by of each branch, and of the default
CompanyOrderBy(key, sd) ==
  CASE key = Key_name ->
         <<Prefixed(sd, "name_sort"), Ascending("domain")>>
    [] key = Key_domain ->
         <<Prefixed(sd, "domain_sort")>>
    [] key = Key_industry ->
         <<Prefixed(sd, "industry_sort"), Ascending("domain")>>
    [] key = Key_size ->
         <<Prefixed(sd, "size_sort"), Ascending("domain")>>
    [] key = Key_leads ->
         <<Prefixed(sd, "leads_count"), Ascending("domain")>>
    [] OTHER ->
         <<Descending("company_name")>>

\* The value of every term of the order_by, row by row
CompanyKeys(rows, terms) ==
  [i \in 1..Len(rows) |->
     [t \in 1..Len(terms) |-> CompanyColumn(rows[i], terms[t].column)]]

\* The whole request: sort key, direction, order, page
company_list_request(sort, dir, page) ==
  /\ UNCHANGED <<companies, leads, environ, method, mode, overwrite, queue,
                 total, enriched, skipped, errors, visited, returned, outcome,
                 before, saves, queried, messages, tagVars, object_count,
                 company_rows, lead_rows, nulls_first>>
  /\ view = "idle"
  /\ view' = "company_list"
  /\ pc' = "done"
  /\ sort_param' = sort
  /\ dir_param' = dir
  /\ page_param' = page
  /\ sort_key' = SortKeyOf(sort, company_allowed_sort_keys)
  /\ sort_dir' = SortDirOf(sort_key', dir, company_default_dir_for(sort_key'))
  /\ order_by' = CompanyOrderBy(sort_key', sort_dir')
  /\ object_list' \in Ordered(CompanyKeys(company_rows, order_by'), order_by')
  /\ page_obj' = Page(object_count, get_page(object_count, PageArgument(page)))

(***************************************************************************)
(* lead_list: the rows, the sort keys and their order_by.                  *)
(***************************************************************************)
\* A lead with nothing filled in and no company
BareLead(e) ==
  [email |-> e, pdl_first_name |-> None, pdl_last_name |-> None,
   pdl_job_title |-> None, company__company_name |-> None,
   company__domain |-> None, lead_score |-> IntV(0), lead_stage |-> StrV("")]

\* The lead rows by what is filled in: each order_by reads one of these,
\* and the email; a lead that has a company has the company's domain, and
\* perhaps its name
LeadListRows ==
  {{[BareLead(e) EXCEPT !.pdl_first_name = v, !.pdl_last_name = w] :
      e \in RowKeys, v \in RowTexts, w \in RowTexts},
   {[BareLead(e) EXCEPT !.pdl_job_title = v] :
      e \in RowKeys, v \in RowTexts},
   {BareLead(e) : e \in RowKeys}
     \cup {[BareLead(e) EXCEPT !.company__domain = <<"i">>,
                               !.company__company_name = v] :
             e \in RowKeys, v \in RowTexts},
   {[BareLead(e) EXCEPT !.lead_score = v] :
      e \in RowKeys, v \in {IntV(0), IntV(7)}},
   {[BareLead(e) EXCEPT !.lead_stage = v] :
      e \in RowKeys, v \in {StrV(""), StrV("low"), StrV("enterprise")}}}

LeadListTables == UNION {TablesOver(rows, "email") : rows \in LeadListRows}

lead_allowed_sort_keys ==
  {Key_name, Key_job_title, Key_email, Key_company, Key_score, Key_stage}

\* _default_dir_for(key)
lead_default_dir_for(key) ==
  IF key \in {Key_score, Key_stage} THEN Dir_desc ELSE Dir_asc

\* Case(When(lead_stage=...), default=Value(-1))
stage_rank(stage) ==
  CASE stage = StrV("low") -> IntV(0)
    [] stage = StrV("medium") -> IntV(1)
    [] stage = StrV("high") -> IntV(2)
    [] stage = StrV("very_high") -> IntV(3)
    [] stage = StrV("enterprise") -> IntV(4)
    [] OTHER -> IntV(-1)

\* The column or annotation an order_by term names
LeadColumn(row, column) ==
  CASE column = "first_name_sort" ->
         Lower(Coalesce(row.pdl_first_name, <<>>))
    [] column = "last_name_sort" ->
         Lower(Coalesce(row.pdl_last_name, <<>>))
    [] column = "job_title_sort" ->
         Lower(Coalesce(row.pdl_job_title, <<>>))
    [] column = "email_sort" -> Lower(row.email)
    [] column = "company_sort" ->
         Lower(Coalesce(row.company__company_name, row.company__domain))
    [] column = "lead_score" -> row.lead_score
    [] column = "stage_rank" -> stage_rank(row.lead_stage)
    [] column = "email" -> row.email

\* The order_by of each branch; no branch, no order_by
LeadOrderBy(key, sd) ==
  CASE key = Key_name ->
         <<Prefixed(sd, "first_name_sort"), Prefixed(sd, "last_name_sort"),
           Ascending("email")>>
    [] key = Key_job_title ->
         <<Prefixed(sd, "job_title_sort"), Ascending("email")>>
    [] key = Key_email ->
         <<Prefixed(sd, "email_sort")>>
    [] key = Key_company ->
         <<Prefixed(sd, "company_sort"), Ascending("email")>>
    [] key = Key_score ->
         <<Prefixed(sd, "lead_score"), Ascending("email")>>
    [] key = Key_stage ->
         <<Prefixed(sd, "stage_rank"), Ascending("email")>>
    [] OTHER -> <<>>

LeadKeys(rows, terms) ==
  [i \in 1..Len(rows) |->
     [t \in 1..Len(terms) |-> LeadColumn(rows[i], terms[t].column)]]

\* The whole request: sort key, direction, order, page
lead_list_request(sort, dir, page) ==
  /\ UNCHANGED <<companies, leads, environ, method, mode, overwrite, queue,
                 total, enriched, skipped, errors, visited, returned, outcome,
                 before, saves, queried, messages, tagVars, object_count,
                 company_rows, lead_rows, nulls_first>>
  /\ view = "idle"
  /\ view' = "lead_list"
  /\ pc' = "done"
  /\ sort_param' = sort
  /\ dir_param' = dir
  /\ page_param' = page
  /\ sort_key' = SortKeyOf(sort, lead_allowed_sort_keys)
  /\ sort_dir' = SortDirOf(sort_key', dir, lead_default_dir_for(sort_key'))
  /\ order_by' = LeadOrderBy(sort_key', sort_dir')
  /\ object_list' \in Ordered(LeadKeys(lead_rows, order_by'), order_by')
  /\ page_obj' = Page(object_count, get_page(object_count, PageArgument(page)))

(***************************************************************************)
(* The list views as the specifications take them: over every page value  *)
(* with no sort asked for, or over every sort and dir value with no page   *)
(* asked for.                                                              *)
(***************************************************************************)
company_list == \E raw \in PageInputs : company_list_request(None, None, raw)

lead_list == \E raw \in PageInputs : lead_list_request(None, None, raw)

company_list_ordered ==
  \E sort \in SortInputs, dir \in DirInputs :
    company_list_request(sort, dir, None)

lead_list_ordered ==
  \E sort \in SortInputs, dir \in DirInputs :
    lead_list_request(sort, dir, None)

(***************************************************************************)
(* The list views over every size of the filtered queryset.                *)
(***************************************************************************)
InitLists ==
  /\ environ = [k \in {"GENAI_API_KEY", "OPENAI_API_KEY"} |-> None]
  /\ companies = <<>> /\ leads = <<>>
  /\ tags = <<>> /\ lead_tags = <<>>
  /\ object_count \in 0..MaxItems
  /\ NoListRows
  /\ Idle

NextLists ==
  \/ company_list
  \/ lead_list
  \/ Respond

SpecLists == InitLists /\ [][NextLists]_vars

(***************************************************************************)
(* The list views over every small table of either list, on a database     *)
(* of either NULL placement.                                               *)
(***************************************************************************)
InitOrder ==
  /\ environ = [k \in {"GENAI_API_KEY", "OPENAI_API_KEY"} |-> None]
  /\ companies = <<>> /\ leads = <<>>
  /\ tags = <<>> /\ lead_tags = <<>>
  /\ nulls_first \in BOOLEAN
  /\ \/ company_rows \in CompanyListTables /\ lead_rows = <<>>
     \/ company_rows = <<>> /\ lead_rows \in LeadListTables
  /\ object_count = Len(company_rows) + Len(lead_rows)
  /\ Idle

NextOrder ==
  \/ company_list_ordered
  \/ lead_list_ordered
  \/ Respond

SpecOrder == InitOrder /\ [][NextOrder]_vars

(***************************************************************************)
(* What the claims about enrichment speak of.                              *)
(***************************************************************************)
InCompanyEnrich == view = "company_enrich"
InLeadEnrich == view = "lead_enrich"
InEnrich == InCompanyEnrich \/ InLeadEnrich

\* How often record c was passed to the collaborator in this run
Calls(c) == Cardinality({i \in 1..Len(visited) : visited[i] = c})
Waiting(c) == Cardinality({i \in 1..Len(queue) : queue[i] = c})

\* "empty" as the candidate filter and the value test spell it: NULL or ''
NullOrEmptyString(v) == v = None \/ v = StrV("")

\* The run's table as the request found it, and as it is now
TableBefore == IF InCompanyEnrich THEN before[1] ELSE before[2]
TableNow == IF InCompanyEnrich THEN companies ELSE leads

\* The candidate set in the claims' words: in overwrite mode every record,
\* in fill mode the records with a NULL or '' enrichable column
ClaimedCandidates ==
  IF mode = "all" THEN DOMAIN TableBefore
  ELSE {c \in DOMAIN TableBefore :
          \E f \in DOMAIN TableBefore[c] : NullOrEmptyString(TableBefore[c][f])}

\* C1 as stated: in fill mode a column that is neither NULL nor '' keeps its
\* value, in overwrite mode every returned value that is neither None nor ''
\* is the column's value after the run.
C1_Original ==
  (InCompanyEnrich /\ pc = "done") =>
    \A d \in DOMAIN companies : \A f \in FieldNames :
      /\ (mode # "all" /\ ~NullOrEmptyString(before[1][d][f]))
            => companies[d][f] = before[1][d][f]
      /\ (mode = "all" /\ returned[d].kind = "mapping"
             /\ ~NullOrEmptyString(returned[d].data[f]))
            => companies[d][f] = returned[d].data[f]

\* C1 (amended): in every company enrichment run, for every record and every
\* enrichable column: in fill mode a column whose current value is truthy
\* (not NULL, not '' and not 0) is left unchanged whatever the collaborator
\* returns; in overwrite mode every column for which the collaborator
\* returned a value other than None and '' holds that value after the run.
C1_FillKeepsTruthy_OverwriteTakesReturned ==
  InCompanyEnrich =>
    \A d \in DOMAIN companies : \A f \in FieldNames :
      /\ (mode # "all" /\ ~Falsy(before[1][d][f]))
            => companies[d][f] = before[1][d][f]
      /\ (mode = "all" /\ returned[d].kind = "mapping"
             /\ ~NullOrEmptyString(returned[d].data[f]))
            => companies[d][f] = returned[d].data[f]

\* A finished fill-mode run in which the collaborator returned a different
\* value for a populated column and a value for a missing one.
C1_Witness ==
  /\ InCompanyEnrich /\ pc = "done" /\ mode # "all"
  /\ \E d \in DOMAIN companies :
       /\ returned[d].kind = "mapping"
       /\ before[1][d]["linkedin"] = StrV("a")
       /\ returned[d].data["linkedin"] = StrV("b")
       /\ companies[d]["linkedin"] = StrV("a")
       /\ before[1][d]["company_size"] = None
       /\ companies[d]["company_size"] = IntV(7)

\* C2: in an enrichment run with candidates, a raising collaborator does not
\* end the loop: every candidate is passed to the collaborator exactly once
\* (it is waiting in the queue or was visited, never both, never twice), no
\* other record is, and at the summary enriched + skipped + errors is the
\* number of candidates, every raising candidate being tallied once, as an
\* error.
C2_EveryCandidateOnce ==
  (InEnrich /\ pc \in {"iterating", "done"}) =>
    /\ ClaimedCandidates # {}
    /\ \A c \in ClaimedCandidates : Calls(c) + Waiting(c) = 1
    /\ \A i \in 1..Len(visited) : visited[i] \in ClaimedCandidates
    /\ enriched + skipped + errors = Len(visited)
    /\ \A c \in ClaimedCandidates :
         returned[c].kind = "raise" => outcome[c] = "error"
    /\ errors = Cardinality({c \in ClaimedCandidates : outcome[c] = "error"})
    /\ pc = "done" =>
         /\ \A c \in ClaimedCandidates : Calls(c) = 1
         /\ enriched + skipped + errors = Cardinality(ClaimedCandidates)
         /\ messages = <<"completed">>

\* A finished run whose first candidate raised and whose second was enriched.
C2_Witness ==
  /\ InEnrich /\ pc = "done" /\ Len(visited) >= 2
  /\ returned[visited[1]].kind = "raise"
  /\ outcome[visited[2]] = "enriched"
  /\ errors = 1

\* C3: with either credential unset or empty, an enrichment request ends at
\* the gate with the disabled-feature message: the collaborator is never
\* called, no table is queried and no record is written, in either mode.
C3_GatedTouchesNothing ==
  (InEnrich /\ \E k \in DOMAIN environ : NullOrEmptyString(environ[k])) =>
    /\ pc = "gated"
    /\ messages = <<"disabled">>
    /\ visited = <<>>
    /\ ~queried
    /\ saves = 0
    /\ Tables = before

\* A gated request: one credential is set, the other is not, and the table
\* holds a record that a run would have enriched.
C3_Witness ==
  /\ InLeadEnrich /\ pc = "gated"
  /\ environ["GENAI_API_KEY"] = StrV("key")
  /\ environ["OPENAI_API_KEY"] = None
  /\ \E l \in DOMAIN leads : LeadMissesField(leads[l])

\* C4 as stated: a candidate is tallied as skipped when the collaborator
\* returned a falsy answer for it, and when the merge changed no column.
C4_Original ==
  InEnrich =>
    \A c \in ClaimedCandidates :
      (Calls(c) = 1 /\ (\/ returned[c].kind = "falsy"
                        \/ /\ returned[c].kind # "raise"
                           /\ TableNow[c] = TableBefore[c]))
        => outcome[c] = "skipped"

\* No column of company d was set by the merge of the answer it got
NoFieldSet(d) ==
  \A f \in FieldNames :
    \/ NullOrEmptyString(returned[d].data[f])
    \/ (mode # "all" /\ ~Falsy(before[1][d][f]))

\* C4 (amended): a visited candidate is tallied as skipped exactly when the
\* collaborator returned a truthy answer and, for a company, the merge set
\* no column, for a lead, the answer carries a truthy 'skipped'; a falsy or
\* empty answer is tallied as an error, not as a skip.
C4_SkipIsTruthyAnswerWithoutWrite ==
  InEnrich =>
    \A c \in ClaimedCandidates : Calls(c) = 1 =>
      /\ returned[c].kind = "falsy" => outcome[c] = "error"
      /\ InCompanyEnrich =>
           (outcome[c] = "skipped"
              <=> (returned[c].kind = "mapping" /\ NoFieldSet(c)))
      /\ InLeadEnrich =>
           (outcome[c] = "skipped" <=> returned[c].kind = "skipped")

\* A finished company run with one candidate skipped on a truthy answer and
\* one tallied as an error on a falsy answer.
C4_Witness ==
  /\ InCompanyEnrich /\ pc = "done"
  /\ \E c, e \in ClaimedCandidates :
       /\ returned[c].kind = "mapping" /\ outcome[c] = "skipped"
       /\ returned[e].kind = "falsy" /\ outcome[e] = "error"
  /\ skipped = 1 /\ errors = 1

\* C5: with both credentials set and no candidate (fill mode: no record has
\* a NULL or '' enrichable column; overwrite mode: no record), the run
\* reports that nothing needs enrichment, calls the collaborator for no
\* record, writes no record and never enters the iteration.
C5_NoCandidatesNoWork ==
  (InEnrich /\ \A k \in DOMAIN environ : ~NullOrEmptyString(environ[k])
            /\ ClaimedCandidates = {}) =>
    /\ pc = "empty"
    /\ messages = <<"none_need">>
    /\ visited = <<>>
    /\ saves = 0
    /\ Tables = before

\* A fill-mode company run over a table whose records are all populated.
C5_Witness ==
  /\ InCompanyEnrich /\ pc = "empty" /\ mode # "all"
  /\ Cardinality(DOMAIN companies) = NumCompanies

(***************************************************************************)
(* What the claims about the bulk actions speak of.                        *)
(***************************************************************************)
InSelectionSync == view = "send_to_mailchimp"
InTagSync == view = "send_tag_to_mailchimp"
InSyncLoop == (InSelectionSync \/ InTagSync) /\ pc \in {"iterating", "done"}
InBulkApply == view = "bulk_apply_tag"

\* The records a sync run targets: the existing leads whose pk is selected,
\* or the leads that carry the chosen tag
Targeted ==
  IF InSelectionSync
  THEN {l \in DOMAIN before[2] : \E i \in 1..Len(selected_ids) : selected_ids[i] = l}
  ELSE {l \in DOMAIN before[2] : Rows(before[4], l, tag_id[2]) > 0}

Failures == {l \in LeadIds : returned[l].kind = "error"}
Successes == {l \in LeadIds : returned[l].kind = "ok"}
Reports(m) == \E i \in 1..Len(messages) : messages[i] = m

C7_TalliesCountResults ==
  (InSyncLoop /\ pc = "done") =>
    /\ \A l \in LeadIds : Calls(l) = (IF l \in Targeted THEN 1 ELSE 0)
    /\ failed = Cardinality(Failures)
    /\ success = Cardinality(Successes)
    /\ success + failed = Cardinality(Targeted)

\* A finished tag-based run in which every targeted record failed.
C7_Witness ==
  /\ InTagSync /\ pc = "done"
  /\ Cardinality(Targeted) = NumLeads
  /\ failed = NumLeads /\ success = 0

\* "  VIP  " and "vip"
PaddedVIP == <<" ", " ", "V", "I", "P", " ", " ">>
Vip == <<"v", "i", "p">>

IsBlank(raw) == raw = None \/ \A i \in 1..Len(raw) : IsSpace(raw[i])

\* C8: a bulk tag apply with a non-empty selection and a tag name that is
\* not empty once trimmed creates or reuses the one tag named
\* lowercase(trim(t)) ("  VIP  " gives "vip") and ties it to every existing
\* selected lead; however often it is applied, no two tags share a name and
\* no lead is tied to a tag by more than one row.
C8_OneTagOneAssociation ==
  /\ \A i, j \in TagIds : tags[i] = tags[j] => i = j
  /\ \A p \in DOMAIN lead_tags : lead_tags[p] <= 1
  /\ (InBulkApply /\ method = "POST" /\ selected_ids # <<>>
        /\ ~IsBlank(tag_name)) =>
       /\ pc = "done"
       /\ tag \in TagIds
       /\ tags[tag] = lower(strip(tag_name))
       /\ tag_name = PaddedVIP => tags[tag] = Vip
       /\ Cardinality({i \in TagIds : tags[i] = tags[tag]}) = 1
       /\ \A l \in DOMAIN leads :
            (\E i \in 1..Len(selected_ids) : selected_ids[i] = l)
              => Rows(lead_tags, l, tag) = 1
       /\ \A i \in 1..Len(before[3]) : tags[i] = before[3][i]

\* "  VIP  " applied to a lead that already carries the tag "vip".
C8_Witness ==
  /\ InBulkApply /\ pc = "done" /\ tag_name = PaddedVIP
  /\ tags = before[3]
  /\ \E l \in DOMAIN leads :
       /\ \E i \in 1..Len(selected_ids) : selected_ids[i] = l
       /\ Rows(before[4], l, tag) = 1
       /\ Rows(lead_tags, l, tag) = 1

\* C9: a bulk tag apply with an empty selection, or with a tag name that is
\* missing, empty or blank, fails with a validation message and persists
\* nothing; a selection-based sync with an empty selection fails likewise
\* and calls the collaborator for no record.
C9_EmptyInputPersistsNothing ==
  /\ (InBulkApply /\ method = "POST"
        /\ (selected_ids = <<>> \/ IsBlank(tag_name))) =>
       /\ pc = "invalid"
       /\ messages \in {<<"no_leads_selected">>, <<"tag_name_required">>}
       /\ Tables = before
  /\ (InSelectionSync /\ method = "POST" /\ selected_ids = <<>>) =>
       /\ pc = "invalid"
       /\ messages = <<"no_leads_selected">>
       /\ visited = <<>>
       /\ \A l \in LeadIds : sent[l] = None

\* A blank tag name for a selection of existing leads.
C9_Witness ==
  /\ InBulkApply /\ pc = "invalid" /\ tag_name = <<" ", " ">>
  /\ LeadsIn(leads, selected_ids) # {}
  /\ messages = <<"tag_name_required">>

(***************************************************************************)
(* What the claims about the list views speak of.                          *)
(***************************************************************************)
InList == view \in {"company_list", "lead_list"}

\* The last page of the result set: ten rows a page, one page at least
LastPage == IF object_count = 0 THEN 1 ELSE (object_count + 9) \div 10

\* C10 as stated: a page number above the last page gives the last page,
\* and a page number of 0 or below gives page 1.
C10_Original ==
  (InList /\ page_param # None /\ IsInteger(page_param)) =>
    /\ IntegerOf(page_param) > LastPage => page_obj.number = LastPage
    /\ IntegerOf(page_param) <= 0 => page_obj.number = 1

(***************************************************************************)
(* What the claims about the order of the lists speak of.                  *)
(***************************************************************************)
InCompanyList == view = "company_list"
InLeadList == view = "lead_list"

\* What the request asked to sort by, as the view reads it
AskedKey == lower(strip(OrEmpty(sort_param)))

\* The keys whose fixed direction is descending
DescendingKeys == {Key_size, Key_leads, Key_score, Key_stage}

\* The order the claim gives a company key: the case-normalized field with
\* its null fallback in the key's direction, then the domain
ClaimedCompanyTerms(key) ==
  LET field == CASE key = Key_name -> "name_sort"
                 [] key = Key_domain -> "domain_sort"
                 [] key = Key_industry -> "industry_sort"
                 [] key = Key_size -> "size_sort"
                 [] key = Key_leads -> "leads_count"
  IN  <<[column |-> field, desc |-> key \in DescendingKeys],
        Ascending("domain")>>

\* The order the claim gives a lead key: the same, then the email
ClaimedLeadTerms(key) ==
  LET desc == key \in DescendingKeys
      field == CASE key = Key_job_title -> "job_title_sort"
                 [] key = Key_email -> "email_sort"
                 [] key = Key_company -> "company_sort"
                 [] key = Key_score -> "lead_score"
                 [] key = Key_stage -> "stage_rank"
                 [] OTHER -> "first_name_sort"
  IN  IF key = Key_name
      THEN <<[column |-> "first_name_sort", desc |-> desc],
             [column |-> "last_name_sort", desc |-> desc],
             Ascending("email")>>
      ELSE <<[column |-> field, desc |-> desc], Ascending("email")>>

\* Whether the rows came in the one order these terms leave: every row
\* strictly before the rows after it
InTotalOrder(keys, terms) ==
  \A j \in 1..Len(object_list) : \A i \in 1..(j - 1) :
    KeysBefore(keys[object_list[i]], keys[object_list[j]], terms)

\* C11 as stated: for every allow-listed sort key and every dir, the rows
\* come totally ordered by the case-normalized field with its null
\* fallback, in the key's fixed direction, and then by the natural key.
C11_Original ==
  /\ (InCompanyList /\ AskedKey \in company_allowed_sort_keys) =>
       InTotalOrder(CompanyKeys(company_rows, ClaimedCompanyTerms(AskedKey)),
                    ClaimedCompanyTerms(AskedKey))
  /\ (InLeadList /\ AskedKey \in lead_allowed_sort_keys) =>
       InTotalOrder(LeadKeys(lead_rows, ClaimedLeadTerms(AskedKey)),
                    ClaimedLeadTerms(AskedKey))

(***************************************************************************)
(* What the claim about the request method speaks of.                      *)
(***************************************************************************)
\* The actions of the model that write records
InMutation ==
  view \in {"company_enrich", "lead_enrich", "bulk_apply_tag",
            "send_to_mailchimp", "send_tag_to_mailchimp"}

\* C12 as stated: a request that is not a POST leaves every persisted
\* record as it found it, whichever mutation action it goes to.
C12_Original == (InMutation /\ method # "POST") => Tables = before

(***************************************************************************)
(* What the claim about the synced tag names speaks of.                    *)
(***************************************************************************)
\* The names of the tags lead l carries
OwnTagNames(l) == Elements(TagNamesOf(tags, lead_tags, l))

\* C13 as stated: in either sync, the tag names passed to the collaborator
\* for a record are all of that record's own tag names, along with its
\* email and first name.
C13_Original ==
  InSyncLoop =>
    \A i \in 1..Len(visited) :
      LET l == visited[i]
      IN  /\ Elements(sent[l].tag_names) = OwnTagNames(l)
          /\ sent[l].email = l
          /\ sent[l].first_name = leads[l]["pdl_first_name"]

(***************************************************************************)
(* What the claim about sort values outside the allow-list speaks of.      *)
(***************************************************************************)
\* Whether every row is in object_list, once
AllRowsOnce(rows) ==
  /\ Len(object_list) = Len(rows)
  /\ \A r \in 1..Len(rows) : \E i \in 1..Len(object_list) : object_list[i] = r

\* Whether no row comes before a row of a greater company name
ByNameDescending ==
  \A j \in 1..Len(object_list) : \A i \in 1..(j - 1) :
    ~ValueLess(company_rows[object_list[i]].company_name,
               company_rows[object_list[j]].company_name)

\* C14: a sort value that is not in the view's allow-list once stripped
\* and lowercased (absent and empty included) gives a rendered page of all
\* the rows, an empty sort key reported back, and no allow-listed branch:
\* the company list is ordered by company name descending and by nothing
\* else, the lead list has no order_by at all.
C14_UnlistedSortFallsBack ==
  /\ (InCompanyList /\ AskedKey \notin company_allowed_sort_keys) =>
       /\ pc = "done" /\ page_obj.number = 1
       /\ sort_key = <<>>
       /\ order_by = <<[column |-> "company_name", desc |-> TRUE]>>
       /\ AllRowsOnce(company_rows)
       /\ ByNameDescending
  /\ (InLeadList /\ AskedKey \notin lead_allowed_sort_keys) =>
       /\ pc = "done" /\ page_obj.number = 1
       /\ sort_key = <<>>
       /\ order_by = <<>>
       /\ AllRowsOnce(lead_rows)

\* A company list asked to sort by a key of the lead list only: the named
\* company comes before the unnamed one, which the table holds first
C14_Witness ==
  /\ InCompanyList
  /\ sort_param = Key_score
  /\ nulls_first
  /\ Len(company_rows) = 2
  /\ company_rows[1].company_name = None
  /\ company_rows[2].company_name = <<"V">>
  /\ object_list = <<2, 1>>
  /\ sort_key = <<>>

=============================================================================
